---- MODULE Spec2Model ----
(***************************************************************************)
(* A model of the repository's two programs:                               *)
(*   - package god (src/god.go): the sharded key-value store with its      *)
(*     write-ahead log queue, log-writer task and startup replay;          *)
(*   - package discord (src/unnamed/part_000): the Node lifecycle.         *)
(* The store is checked under SpecSeq (one caller, process restarts) and   *)
(* SpecConc (two concurrent callers); the Node under SpecNode.             *)
(***************************************************************************)
EXTENDS Integers, Sequences, FiniteSets, TLC

(* ------------------------------ bounds -------------------------------- *)

\* Perform calls issued by callers in one behaviour.
MaxOps == 3

\* Process lifetimes (NewGod runs) in one behaviour.
MaxLives == 2

\* The first value the model's clock hands to time.Now().UnixNano().  Real
\* values have 19 decimal digits from 2001 until the int64 wraps; the model
\* keeps the width fixed in the same way with 4 digits.
ClockStart == 1000

\* Capacity of the log queue.  The source has 1 << 10 (src/god.go:18); the
\* model scales it down so that callers can find the queue full.
backlog == 2

\* Calls of Start, Stop and Export on the Node in one behaviour.
MaxCalls == 4

\* The largest position of the hash ring: positions and keys are 0..MaxPos,
\* in place of the byte strings of murmur.Size bytes.
MaxPos == 3

\* Cycles of the periodic tasks, over all nodes, in one behaviour in which
\* cyclesLeft counts them.
MaxCycles == 2

\* Operations of the cluster (cycles, Join, GetSuccessor, Stop) that may be
\* in progress at the same time.
MaxBusy == 2

\* Calls of GetSuccessor and RemoveNode from outside, over all nodes.
MaxApi == 1

\* Nodes that are stopped or whose process is killed in one behaviour.
MaxOutages == 1

(* ------------------------- program constants -------------------------- *)

shards == 512

GET == 0

PUT == 1

DELETE == 2

KEYS == 3

OK == 1

MISSING == 2

EXISTS == 4

UNKNOWN == 8

BAD == 16

ARITY == 32

created == 0

started == 1

stopped == 2

arity_error == "Illegal number of parameters. Wanted %v but got %v."

\* The declared commands, and one value of type Command that is none of them.
Commands == {GET, PUT, DELETE, KEYS, KEYS + 1}

(* ------------------------------ inputs -------------------------------- *)

\* The strings callers use as keys and values.
Strs == {"a", "b", "c"}

\* Parameter lists of every length from 0 to 3: no parameter, a key, a key
\* and a value, and one list longer than any command takes.
ParamLists ==
  { <<>>, <<"a">>, <<"b">>, <<"c">>,
    <<"a", "a">>, <<"a", "b">>, <<"b", "a">>, <<"c", "b">>,
    <<"a", "b", "c">> }

\* The operations callers issue: every command, with its own number of
\* parameters, with fewer, and with one more.
Operations ==
  { o \in [Command : Commands, Parameters : ParamLists] :
      Len(o.Parameters) <= (CASE o.Command = GET    -> 2
                              [] o.Command = PUT    -> 3
                              [] o.Command = DELETE -> 2
                              [] OTHER              -> 1) }

NoOp == [Command |-> KEYS + 1, Parameters |-> <<>>]

\* Response{}: the zero value a caller passes in.
ZeroResponse == [Result |-> 0, Parts |-> <<>>]

\* The snapshot.god files a storage directory may hold when the first process
\* starts (nothing in the program writes one): none, or one that leaves two
\* keys of the same shard.
Snapshots == { <<>>,
               << [Command |-> PUT, Parameters |-> <<"a", "b">>],
                  [Command |-> PUT, Parameters |-> <<"b", "a">>] >> }

(* --------------------------- bit operations --------------------------- *)

RECURSIVE BitAnd(_, _)
BitAnd(x, y) ==
  IF x = 0 \/ y = 0 THEN 0
  ELSE (IF x % 2 = 1 /\ y % 2 = 1 THEN 1 ELSE 0) + 2 * BitAnd(x \div 2, y \div 2)

RECURSIVE BitOr(_, _)
BitOr(x, y) ==
  IF x = 0 THEN y
  ELSE IF y = 0 THEN x
  ELSE (IF x % 2 = 1 \/ y % 2 = 1 THEN 1 ELSE 0) + 2 * BitOr(x \div 2, y \div 2)

(* --------------------------- the shard maps --------------------------- *)

\* gotomic.StringKey.HashCode: a uint32 of the key.  "a" and "b" fall into
\* the same shard, "c" into another.
HashCode(key) ==
  CASE key = "a" -> 1
    [] key = "b" -> 513
    [] OTHER     -> 2

\* God.shard: the index of the key's shard and its hash code.
shard(key) == [hash |-> BitAnd(HashCode(key), shards - 1), hashCode |-> HashCode(key)]

\* gotomic.NewHash: an empty map.
NewHash == [k \in {} |-> ""]

\* God.hashes as NewGod makes it: shards empty maps.  The model writes down
\* the shards that hold a key; every other index of 0..shards-1 is an empty
\* map.
NewHashes == [i \in {} |-> NewHash]

\* self.hashes[i]
ShardAt(hs, i) == IF i \in DOMAIN hs THEN hs[i] ELSE NewHash

\* self.hashes with the map of shard i replaced by h.
WithShard(hs, i, h) ==
  [j \in (IF DOMAIN h = {} THEN DOMAIN hs \ {i} ELSE DOMAIN hs \cup {i}) |->
     IF j = i THEN h ELSE hs[j]]

\* gotomic.Hash.GetHC: the entry stored under the key.
GetHC(h, hc, key) ==
  IF key \in DOMAIN h THEN [t |-> h[key], ok |-> TRUE] ELSE [t |-> "", ok |-> FALSE]

\* gotomic.Hash.PutHC: insert or replace; the new map and the old entry.
PutHC(h, hc, key, value) ==
  [h   |-> [k \in DOMAIN h \cup {key} |-> IF k = key THEN value ELSE h[k]],
   old |-> GetHC(h, hc, key)]

\* gotomic.Hash.DeleteHC: remove if present; the new map and the old entry.
DeleteHC(h, hc, key) ==
  [h   |-> [k \in DOMAIN h \ {key} |-> h[k]],
   old |-> GetHC(h, hc, key)]

(* ------------------------ the command handlers ------------------------ *)

\* A check that lets too many parameters through.
okArity_atLeast(o, wanted) == Len(o.Parameters) >= wanted

\* God.okArity: whether the operation has the wanted number of parameters.
okArity(o, wanted) == Len(o.Parameters) = wanted

\* God.okArity: the response it writes on a mismatch.  fmt.Sprint puts the
\* operands after the format text, with a space between the two numbers.
arityResponse(o, wanted) ==
  [Result |-> BitOr(BAD, ARITY),
   Parts  |-> << arity_error \o ToString(wanted) \o " " \o ToString(Len(o.Parameters)) >>]

\* A get whose test of the lookup is inverted.
get_inverted(hs, o) ==
  IF Len(o.Parameters) # 1 THEN arityResponse(o, 1)
  ELSE LET key  == o.Parameters[1]
           s    == shard(key)
           got  == GetHC(ShardAt(hs, s.hash), s.hashCode, key)
       IN  IF ~got.ok THEN [Result |-> BitOr(OK, EXISTS), Parts |-> <<got.t>>]
           ELSE [Result |-> BitOr(OK, MISSING), Parts |-> <<>>]

\* God.get: the response; the maps are only read.
get(hs, o) ==
  IF ~okArity(o, 1) THEN arityResponse(o, 1)
  ELSE LET key  == o.Parameters[1]
           s    == shard(key)
           got  == GetHC(ShardAt(hs, s.hash), s.hashCode, key)
       IN  IF got.ok THEN [Result |-> BitOr(OK, EXISTS), Parts |-> <<got.t>>]
           ELSE [Result |-> BitOr(OK, MISSING), Parts |-> <<>>]

\* A put that reports the value it stored instead of the one it replaced.
putCommit_newValue(hs, o) ==
  LET key == o.Parameters[1]
      s   == shard(key)
      res == PutHC(ShardAt(hs, s.hash), s.hashCode, key, o.Parameters[2])
  IN  [hashes |-> WithShard(hs, s.hash, res.h),
       r      |-> IF res.old.ok
                    THEN [Result |-> BitOr(OK, EXISTS), Parts |-> <<o.Parameters[2]>>]
                    ELSE [Result |-> BitOr(OK, MISSING), Parts |-> <<"">>]]

\* God.put after its arity check and its send to the log queue: the PutHC
\* and the response.
putCommit(hs, o) ==
  LET key == o.Parameters[1]
      s   == shard(key)
      res == PutHC(ShardAt(hs, s.hash), s.hashCode, key, o.Parameters[2])
  IN  [hashes |-> WithShard(hs, s.hash, res.h),
       r      |-> IF res.old.ok
                    THEN [Result |-> BitOr(OK, EXISTS), Parts |-> <<res.old.t>>]
                    ELSE [Result |-> BitOr(OK, MISSING), Parts |-> <<"">>]]

\* A del that answers a missing key as get does, with no parts.
del_nilParts(hs, o) ==
  IF Len(o.Parameters) # 1 THEN [hashes |-> hs, r |-> arityResponse(o, 1)]
  ELSE LET key == o.Parameters[1]
           s   == shard(key)
           res == DeleteHC(ShardAt(hs, s.hash), s.hashCode, key)
       IN  [hashes |-> WithShard(hs, s.hash, res.h),
            r      |-> IF res.old.ok
                         THEN [Result |-> BitOr(OK, EXISTS), Parts |-> <<res.old.t>>]
                         ELSE [Result |-> BitOr(OK, MISSING), Parts |-> <<>>]]

\* God.del: the new maps and the response.
del(hs, o) ==
  IF ~okArity(o, 1) THEN [hashes |-> hs, r |-> arityResponse(o, 1)]
  ELSE LET key == o.Parameters[1]
           s   == shard(key)
           res == DeleteHC(ShardAt(hs, s.hash), s.hashCode, key)
       IN  [hashes |-> WithShard(hs, s.hash, res.h),
            r      |-> IF res.old.ok
                         THEN [Result |-> BitOr(OK, EXISTS), Parts |-> <<res.old.t>>]
                         ELSE [Result |-> BitOr(OK, MISSING), Parts |-> <<"">>]]

\* Every key of every shard.
AllKeys(hs) == UNION {DOMAIN ShardAt(hs, i) : i \in DOMAIN hs}

\* God.keys: the responses it can give.  The shards are visited in index
\* order; the order of one shard's keys is the map's own.
keys(hs, o) ==
  IF ~okArity(o, 0) THEN {arityResponse(o, 0)}
  ELSE LET ks == AllKeys(hs)
           n  == Cardinality(ks)
       IN  { [Result |-> OK, Parts |-> p] :
               p \in { q \in [1..n -> ks] :
                         /\ \A i, j \in 1..n : i < j => q[i] # q[j]
                         /\ \A i, j \in 1..n : i < j => shard(q[i]).hash <= shard(q[j]).hash } }

\* The key->value mapping the shards hold, as a set of pairs.
Contents(hs) == UNION { { <<k, hs[i][k]>> : k \in DOMAIN hs[i] } : i \in DOMAIN hs }

(* ---------------------------- file names ------------------------------ *)

\* The characters of the file names, in byte order.
Alphabet == << ".", "0", "1", "2", "3", "4", "5", "6", "7", "8", "9",
               "a", "d", "g", "h", "l", "n", "o", "p", "s", "t" >>

Ord(ch) == CHOOSE i \in 1..Len(Alphabet) : Alphabet[i] = ch

RECURSIVE Digits(_)
Digits(n) == IF n < 10 THEN <<Alphabet[n + 2]>> ELSE Digits(n \div 10) \o <<Alphabet[(n % 10) + 2]>>

\* const snapshot: "snapshot.god".
snapshot == << "s", "n", "a", "p", "s", "h", "o", "t", ".", "g", "o", "d" >>

\* God.log: fmt.Sprint(time.Now().UnixNano(), ".log").
logName(t) == Digits(t) \o << ".", "l", "o", "g" >>

\* God.loadAll: regexp.Match("\\.log$", child).
isLog(name) ==
  /\ Len(name) >= 4
  /\ SubSeq(name, Len(name) - 3, Len(name)) = << ".", "l", "o", "g" >>

\* The order of Go strings: byte by byte, a proper prefix first.
StrLess(x, y) ==
  \E i \in 1..(Len(y)) :
     /\ \A j \in 1..(i - 1) : j <= Len(x) /\ x[j] = y[j]
     /\ \/ i = Len(x) + 1
        \/ i <= Len(x) /\ Ord(x[i]) < Ord(y[i])

\* sort.Sort(sort.StringSlice(children)).
RECURSIVE SortStrings(_)
SortStrings(S) ==
  IF S = {} THEN <<>>
  ELSE LET m == CHOOSE x \in S : \A y \in S \ {x} : StrLess(x, y)
       IN  <<m>> \o SortStrings(S \ {m})

\* God.loadAll: the paths it loads, in order: the snapshot, then the
\* directory's children that end in .log, sorted.
loadOrder(d) == <<snapshot>> \o SortStrings({n \in DOMAIN d : isLog(n)})

(* ------------------------- the store's state -------------------------- *)

VARIABLES
  hashes,      \* God.hashes: shard index -> map
  logChannel,  \* God.logChannel: the queue of operations to log
  doLog,       \* God.doLog
  dir,         \* God.dir: the storage directory, file name -> operations
  now,         \* the clock: the next value of time.Now().UnixNano()
  main,        \* where NewGod is: "loadAll", then "serving" once it returned
  lfiles,      \* loadAll: the paths still to load
  lpos,        \* load: operations decoded from the file being loaded
  wpc,         \* God.log: "off", "create", "recv" or "encode"
  wname,       \* God.log: the name of its log file
  whand,       \* God.log: the operation received and not yet encoded
  pc,          \* per caller: "idle", or where its put is: "send", "apply"
  cur,         \* per caller: the operation of its running put
  r,           \* per caller: its Response
  clients,     \* the callers that issue operations in this behaviour
  nops,        \* operations issued by callers so far
  lives,       \* process lifetimes so far
  last,        \* history: the operation completed last, and its response
  app,         \* history: what a caller's running operation sent to the queue
  ref,         \* history: per key, the value of the last PUT not yet deleted
  sent,        \* history: every operation sent to the queue, in order
  applied,     \* history: the logged PUTs in the order they reached the maps
  prev         \* history: the maps of the previous process when it ended

storeVars == << hashes, logChannel, doLog, dir, now, main, lfiles, lpos, wpc, wname,
                whand, pc, cur, r, clients, nops, lives, last, app, ref, sent,
                applied, prev >>

(* -------------------------- the Node's state -------------------------- *)

VARIABLES
  state,       \* Node.state: created, started or stopped
  exports,     \* Node.exports: name -> api
  listener,    \* Node.listener: "nil", "open" or "closed"
  addr,        \* Node.addr
  server,      \* Start's rpc server: the names registered on it -> api
  ring,        \* Node.ring: the addresses of its members
  tasks,       \* the goroutines Start has spawned
  fatal,       \* the Go runtime has ended the process
  tpc,         \* per thread: "idle", or where its call of the Node is
  targ,        \* per thread: the arguments of its running Export
  tres,        \* per thread: what its last call returned
  iter,        \* Start's range over exports: the names visited, and the names
               \* written while it ran
  ncalls,      \* calls of the Node so far
  wins,        \* history: how many Start and Stop calls changed the state
  closes       \* history: how many times Stop closed the listener

nodeVars == << state, exports, listener, addr, server, ring, tasks, fatal, tpc, targ,
               tres, iter, ncalls, wins, closes >>

(* ------------------------ the cluster of Nodes ------------------------- *)

VARIABLES
  rings,       \* per node: Node.ring, the members of its view
  positions,   \* per node: Node.position
  states,      \* per node: Node.state
  open,        \* per node: its listener is bound and not closed
  down,        \* per node: "up", or how its process ended
  gpc,         \* per node and task: where the task is
  loc,         \* per node and task: the task's local variables
  cyclesLeft,  \* cycles the periodic tasks may still begin, or -1: no limit
  apiLeft,     \* calls from outside that may still be made
  outagesLeft,   \* nodes that may still be stopped or killed
  removeCall,     \* history: the RemoveNode call the latest step made
  pruned,      \* history, per node: the members it removed as unreachable
               \* that have not called Node.Notify since
  began        \* history, per node and task: another task has changed the
               \* node's view since the task's operation began

ringVars == << rings, positions, states, open, down, gpc, loc, cyclesLeft, apiLeft,
               outagesLeft, removeCall, pruned, began >>

\* The goroutines that call Perform: 0 is the one running NewGod.
Procs == {0, 1, 2}

Idle == \A c \in Procs : pc[c] = "idle"

\* The reference mapping after an operation: what PUT and DELETE mean.
RefAfter(m, o) ==
  IF o.Command = PUT /\ Len(o.Parameters) = 2
    THEN [m EXCEPT ![o.Parameters[1]] = <<o.Parameters[2]>>]
  ELSE IF o.Command = DELETE /\ Len(o.Parameters) = 1
    THEN [m EXCEPT ![o.Parameters[1]] = <<>>]
  ELSE m

\* NewGod up to its call of loadAll, in a directory d.
StartProcess(d) ==
  /\ hashes = NewHashes
  /\ logChannel = <<>>
  /\ doLog = FALSE
  /\ dir = d
  /\ main = "loadAll"
  /\ lfiles = loadOrder(d)
  /\ lpos = 0
  /\ wpc = "off"
  /\ wname = <<>>
  /\ whand = NoOp
  /\ pc = [c \in Procs |-> "idle"]
  /\ cur = [c \in Procs |-> NoOp]
  /\ r = [c \in Procs |-> ZeroResponse]
  /\ last = [seq |-> 0, op |-> NoOp, resp |-> ZeroResponse, live |-> FALSE,
             appended |-> <<>>, rep |-> 0]
  /\ app = [c \in Procs |-> <<>>]
  /\ ref = [k \in Strs |-> <<>>]
  /\ sent = <<>>
  /\ applied = <<>>

StoreInit(cs, snaps) ==
  /\ \E snap \in snaps :
        StartProcess(IF snap = <<>> THEN [n \in {} |-> <<>>] ELSE [n \in {snapshot} |-> snap])
  /\ now = ClockStart
  /\ clients = cs
  /\ nops = 0
  /\ lives = 1
  /\ prev = [kv |-> {}, clean |-> FALSE]

(* ------------------------------ Perform ------------------------------- *)

\* The end of a Perform by c: the maps and the response it leaves.
Complete(c, o, hs, resp, appd) ==
  /\ hashes' = hs
  /\ r' = [r EXCEPT ![c] = resp]
  /\ pc' = [pc EXCEPT ![c] = "idle"]
  /\ cur' = [cur EXCEPT ![c] = NoOp]
  /\ app' = [app EXCEPT ![c] = <<>>]
  /\ last' = [seq |-> last.seq + 1, op |-> o, resp |-> resp, live |-> doLog,
              appended |-> appd,
              rep |-> IF last.seq > 0 /\ last.op = o /\ last.resp = resp
                        THEN (IF last.rep < 2 THEN last.rep + 1 ELSE 2) ELSE 1]
  /\ ref' = RefAfter(ref, o)
  /\ applied' = IF doLog /\ o.Command = PUT /\ Len(o.Parameters) = 2
                  THEN Append(applied, o) ELSE applied

\* God.put up to its send: the arity check and the doLog test.
put(c, o) ==
  IF ~okArity(o, 2) THEN Complete(c, o, hashes, arityResponse(o, 2), <<>>)
  ELSE IF doLog
    THEN /\ pc' = [pc EXCEPT ![c] = "send"]
         /\ cur' = [cur EXCEPT ![c] = o]
         /\ UNCHANGED << hashes, r, app, last, ref, applied >>
    ELSE LET res == putCommit(hashes, o) IN Complete(c, o, res.hashes, res.r, <<>>)

\* God.Perform, called by c.
Perform(c, o) ==
  CASE o.Command = GET    -> Complete(c, o, hashes, get(hashes, o), <<>>)
    [] o.Command = PUT    -> put(c, o)
    [] o.Command = DELETE -> LET res == del(hashes, o)
                             IN  Complete(c, o, res.hashes, res.r, <<>>)
    [] o.Command = KEYS   -> \E resp \in keys(hashes, o) : Complete(c, o, hashes, resp, <<>>)
    [] OTHER              -> Complete(c, o, hashes, [Result |-> UNKNOWN, Parts |-> <<>>], <<>>)

\* A caller calls Perform on the running store.
Call(c, o) ==
  /\ main = "serving"
  /\ c \in clients
  /\ pc[c] = "idle"
  /\ nops < MaxOps
  /\ nops' = nops + 1
  /\ Perform(c, o)
  /\ UNCHANGED << logChannel, sent, doLog, dir, now, main, lfiles, lpos, wpc, wname,
                  whand, clients, lives, prev >>
  /\ UNCHANGED << nodeVars, ringVars >>

\* A send that does not wait for room in the queue.
PutSend_noWait(c) ==
  /\ pc[c] = "send"
  /\ logChannel' = Append(logChannel, cur[c])
  /\ sent' = Append(sent, cur[c])
  /\ app' = [app EXCEPT ![c] = Append(@, cur[c])]
  /\ pc' = [pc EXCEPT ![c] = "apply"]
  /\ UNCHANGED << hashes, doLog, dir, now, main, lfiles, lpos, wpc, wname, whand, cur,
                  r, clients, nops, lives, last, ref, applied, prev >>
  /\ UNCHANGED << nodeVars, ringVars >>

\* God.put: self.logChannel <- o, which waits while the queue is full.
PutSend(c) ==
  /\ pc[c] = "send"
  /\ Len(logChannel) < backlog
  /\ logChannel' = Append(logChannel, cur[c])
  /\ sent' = Append(sent, cur[c])
  /\ app' = [app EXCEPT ![c] = Append(@, cur[c])]
  /\ pc' = [pc EXCEPT ![c] = "apply"]
  /\ UNCHANGED << hashes, doLog, dir, now, main, lfiles, lpos, wpc, wname, whand, cur,
                  r, clients, nops, lives, last, ref, applied, prev >>
  /\ UNCHANGED << nodeVars, ringVars >>

\* God.put after the send: PutHC and the response.
PutApply(c) ==
  /\ pc[c] = "apply"
  /\ LET res == putCommit(hashes, cur[c])
     IN  Complete(c, cur[c], res.hashes, res.r, app[c])
  /\ UNCHANGED << logChannel, sent, doLog, dir, now, main, lfiles, lpos, wpc, wname,
                  whand, clients, nops, lives, prev >>
  /\ UNCHANGED << nodeVars, ringVars >>

(* ------------------------------ loadAll ------------------------------- *)

\* God.load: decode the next operation of the file and Perform it.
LoadDecode ==
  /\ main = "loadAll"
  /\ lfiles # <<>>
  /\ Head(lfiles) \in DOMAIN dir
  /\ lpos < Len(dir[Head(lfiles)])
  /\ lpos' = lpos + 1
  /\ Perform(0, dir[Head(lfiles)][lpos + 1])
  /\ UNCHANGED << logChannel, sent, doLog, dir, now, main, lfiles, wpc, wname, whand,
                  clients, nops, lives, prev >>
  /\ UNCHANGED << nodeVars, ringVars >>

\* God.load: the file does not exist (the snapshot), or is at its end.
LoadEOF ==
  /\ main = "loadAll"
  /\ lfiles # <<>>
  /\ \/ Head(lfiles) \notin DOMAIN dir
     \/ /\ Head(lfiles) \in DOMAIN dir
        /\ lpos = Len(dir[Head(lfiles)])
  /\ lfiles' = Tail(lfiles)
  /\ lpos' = 0
  /\ UNCHANGED << hashes, logChannel, doLog, dir, now, main, wpc, wname, whand, pc, cur,
                  r, clients, nops, lives, last, app, ref, sent, applied, prev >>
  /\ UNCHANGED << nodeVars, ringVars >>

\* NewGod after loadAll: doLog = true, go rval.log(), return.
LoadDone ==
  /\ main = "loadAll"
  /\ lfiles = <<>>
  /\ doLog' = TRUE
  /\ wpc' = "create"
  /\ main' = "serving"
  /\ UNCHANGED << hashes, logChannel, dir, now, lfiles, lpos, wname, whand, pc, cur, r,
                  clients, nops, lives, last, app, ref, sent, applied, prev >>
  /\ UNCHANGED << nodeVars, ringVars >>

(* ------------------------------ God.log ------------------------------- *)

\* God.log: os.Create of the log file, named by the time.
LogCreate ==
  /\ wpc = "create"
  /\ wname' = logName(now)
  /\ dir' = [n \in DOMAIN dir \cup {logName(now)} |->
               IF n = logName(now) THEN <<>> ELSE dir[n]]
  /\ now' = now + 1
  /\ wpc' = "recv"
  /\ UNCHANGED << hashes, logChannel, doLog, main, lfiles, lpos, whand, pc, cur, r,
                  clients, nops, lives, last, app, ref, sent, applied, prev >>
  /\ UNCHANGED << nodeVars, ringVars >>

\* God.log: the range over the channel receives the oldest operation.
LogRecv ==
  /\ wpc = "recv"
  /\ logChannel # <<>>
  /\ whand' = Head(logChannel)
  /\ logChannel' = Tail(logChannel)
  /\ wpc' = "encode"
  /\ UNCHANGED << hashes, doLog, dir, now, main, lfiles, lpos, wname, pc, cur, r,
                  clients, nops, lives, last, app, ref, sent, applied, prev >>
  /\ UNCHANGED << nodeVars, ringVars >>

\* God.log: encoder.Encode appends the operation to the log file.
LogEncode ==
  /\ wpc = "encode"
  /\ dir' = [dir EXCEPT ![wname] = Append(@, whand)]
  /\ whand' = NoOp
  /\ wpc' = "recv"
  /\ UNCHANGED << hashes, logChannel, doLog, now, main, lfiles, lpos, wname, pc, cur, r,
                  clients, nops, lives, last, app, ref, sent, applied, prev >>
  /\ UNCHANGED << nodeVars, ringVars >>

(* ------------------------- the process restarts ------------------------ *)

\* The process ends and NewGod runs again on the same directory.
Restart ==
  /\ main = "serving"
  /\ lives < MaxLives
  /\ lives' = lives + 1
  /\ prev' = [kv |-> Contents(hashes),
              clean |-> Idle /\ logChannel = <<>> /\ wpc # "encode"]
  /\ hashes' = NewHashes
  /\ logChannel' = <<>>
  /\ doLog' = FALSE
  /\ main' = "loadAll"
  /\ lfiles' = loadOrder(dir)
  /\ lpos' = 0
  /\ wpc' = "off"
  /\ wname' = <<>>
  /\ whand' = NoOp
  /\ pc' = [c \in Procs |-> "idle"]
  /\ cur' = [c \in Procs |-> NoOp]
  /\ r' = [c \in Procs |-> ZeroResponse]
  /\ last' = [seq |-> 0, op |-> NoOp, resp |-> ZeroResponse, live |-> FALSE,
              appended |-> <<>>, rep |-> 0]
  /\ app' = [c \in Procs |-> <<>>]
  /\ ref' = [k \in Strs |-> <<>>]
  /\ sent' = <<>>
  /\ applied' = <<>>
  /\ UNCHANGED << dir, now, clients, nops >>
  /\ UNCHANGED << nodeVars, ringVars >>

(* ------------------------------ the Node ------------------------------ *)

\* The goroutines that call Start, Stop and Export.
Threads == {1, 2, 3}

\* The names and apis given to Export; rpc's RegisterName rejects "bad".
Names == {"A", "B"}

Apis == {"x", "bad"}

NoArg == [name |-> "", api |-> ""]

\* NewNode(a).
NewNode(a) ==
  /\ state = created
  /\ exports = [n \in {} |-> ""]
  /\ listener = "nil"
  /\ addr = a
  /\ server = [n \in {} |-> ""]
  /\ ring = {}
  /\ tasks = {}
  /\ fatal = FALSE
  /\ tpc = [t \in Threads |-> "idle"]
  /\ targ = [t \in Threads |-> NoArg]
  /\ tres = [t \in Threads |-> "none"]
  /\ iter = [visited |-> {}, racy |-> {}]
  /\ ncalls = 0
  /\ wins = [start |-> 0, startCalls |-> 0, stop |-> 0, stopCalls |-> 0]
  /\ closes = 0

\* A test for a state reached or passed.
hasState_atLeast(cur_state, s) == cur_state >= s

\* Node.hasState: atomic.LoadInt32(&self.state) == s.
hasState(cur_state, s) == cur_state = s

\* A plain store in place of the compare-and-swap.
changeState_store(cur_state, old, neu) == [ok |-> TRUE, state |-> neu]

\* Node.changeState: atomic.CompareAndSwapInt32(&self.state, old, neu).
changeState(cur_state, old, neu) ==
  [ok |-> cur_state = old, state |-> IF cur_state = old THEN neu ELSE cur_state]

\* A thread may start a call of the Node.
CanCall(t) ==
  /\ ~fatal
  /\ tpc[t] = "idle"
  /\ ncalls < MaxCalls
  /\ ncalls' = ncalls + 1

\* Node.Export: the test of the state; the write follows in ExportWrite.
Export(t, name, api) ==
  /\ CanCall(t)
  /\ IF hasState(state, created)
       THEN /\ tpc' = [tpc EXCEPT ![t] = "export_write"]
            /\ targ' = [targ EXCEPT ![t] = [name |-> name, api |-> api]]
            /\ tres' = [tres EXCEPT ![t] = "none"]
       ELSE /\ tres' = [tres EXCEPT ![t] = "error"]
            /\ UNCHANGED << tpc, targ >>
  /\ UNCHANGED << state, exports, listener, addr, server, ring, tasks, fatal, iter,
                  wins, closes >>
  /\ UNCHANGED << storeVars, ringVars >>

\* Node.Export: self.exports[name] = api under the lock, and return nil.
\* Start ranges over the map without the lock: a write while it ranges is a
\* data race, after which the range may or may not come to the entry, or the
\* runtime ends the process.
ExportWrite(t) ==
  /\ ~fatal
  /\ tpc[t] = "export_write"
  /\ tpc' = [tpc EXCEPT ![t] = "idle"]
  /\ targ' = [targ EXCEPT ![t] = NoArg]
  /\ \/ /\ exports' = [n \in DOMAIN exports \cup {targ[t].name} |->
                         IF n = targ[t].name THEN targ[t].api ELSE exports[n]]
        /\ tres' = [tres EXCEPT ![t] = "nil"]
        /\ iter' = IF \E u \in Threads : tpc[u] = "start_register"
                     THEN [iter EXCEPT !.racy = @ \cup {targ[t].name}] ELSE iter
        /\ UNCHANGED fatal
     \/ /\ \E u \in Threads : tpc[u] = "start_register"
        /\ fatal' = TRUE
        /\ UNCHANGED << exports, tres, iter >>
  /\ UNCHANGED << state, listener, addr, server, ring, tasks, ncalls, wins, closes >>
  /\ UNCHANGED << storeVars, ringVars >>

\* Node.Start: the change of state created -> started, or the error.
Start(t) ==
  /\ CanCall(t)
  /\ LET cas == changeState(state, created, started)
     IN  /\ state' = cas.state
         /\ IF cas.ok
              THEN /\ tpc' = [tpc EXCEPT ![t] = "start_addr"]
                   /\ tres' = [tres EXCEPT ![t] = "none"]
                   /\ wins' = [wins EXCEPT !.start = @ + 1, !.startCalls = @ + 1]
              ELSE /\ tres' = [tres EXCEPT ![t] = "error"]
                   /\ wins' = [wins EXCEPT !.startCalls = @ + 1]
                   /\ UNCHANGED tpc
  /\ UNCHANGED << exports, listener, addr, server, ring, tasks, fatal, targ, iter, closes >>
  /\ UNCHANGED << storeVars, ringVars >>

\* Node.Start: findAddress and setAddr when the address is empty.
StartAddr(t) ==
  /\ ~fatal
  /\ tpc[t] = "start_addr"
  /\ \/ /\ addr # ""
        /\ tpc' = [tpc EXCEPT ![t] = "start_listen"]
        /\ UNCHANGED << addr, tres >>
     \/ /\ addr = ""
        /\ addr' = "found:1"
        /\ tpc' = [tpc EXCEPT ![t] = "start_listen"]
        /\ UNCHANGED tres
     \/ /\ addr = ""
        /\ tpc' = [tpc EXCEPT ![t] = "idle"]
        /\ tres' = [tres EXCEPT ![t] = "error"]
        /\ UNCHANGED addr
  /\ UNCHANGED << state, exports, listener, server, ring, tasks, fatal, targ, iter,
                  ncalls, wins, closes >>
  /\ UNCHANGED << storeVars, ringVars >>

\* Node.Start: ResolveTCPAddr, ListenTCP, setListener, and the registration
\* of the node itself on a new server; or the error of the first two.
StartListen(t) ==
  /\ ~fatal
  /\ tpc[t] = "start_listen"
  /\ \/ /\ listener' = "open"
        /\ server' = [n \in {"Node"} |-> "nodeServer"]
        /\ iter' = [visited |-> {}, racy |-> {}]
        /\ tpc' = [tpc EXCEPT ![t] = "start_register"]
        /\ UNCHANGED tres
     \/ /\ tpc' = [tpc EXCEPT ![t] = "idle"]
        /\ tres' = [tres EXCEPT ![t] = "error"]
        /\ UNCHANGED << listener, server, iter >>
  /\ UNCHANGED << state, exports, addr, ring, tasks, fatal, targ, ncalls, wins, closes >>
  /\ UNCHANGED << storeVars, ringVars >>

\* Node.Start: one turn of the range over exports: RegisterName(name, api),
\* or its error.
StartRegister(t) ==
  /\ ~fatal
  /\ tpc[t] = "start_register"
  /\ \E name \in DOMAIN exports \ iter.visited :
        \/ /\ exports[name] # "bad"
           /\ server' = [n \in DOMAIN server \cup {name} |->
                           IF n = name THEN exports[name] ELSE server[n]]
           /\ iter' = [iter EXCEPT !.visited = @ \cup {name}]
           /\ UNCHANGED << tpc, tres >>
        \/ /\ exports[name] = "bad"
           /\ tpc' = [tpc EXCEPT ![t] = "idle"]
           /\ tres' = [tres EXCEPT ![t] = "error"]
           /\ UNCHANGED << server, iter >>
  /\ UNCHANGED << state, exports, listener, addr, ring, tasks, fatal, targ, ncalls,
                  wins, closes >>
  /\ UNCHANGED << storeVars, ringVars >>

\* Node.Start after the range: ring.Add(self.remote()), the three go
\* statements, and return nil.
StartGo(t) ==
  /\ ~fatal
  /\ tpc[t] = "start_register"
  /\ (DOMAIN exports \ iter.visited) \subseteq iter.racy
  /\ ring' = ring \cup {addr}
  /\ tasks' = {"accept", "notifyPeriodically", "pingPeriodically"}
  /\ tpc' = [tpc EXCEPT ![t] = "idle"]
  /\ tres' = [tres EXCEPT ![t] = "nil"]
  /\ UNCHANGED << state, exports, listener, addr, server, fatal, targ, iter, ncalls,
                  wins, closes >>
  /\ UNCHANGED << storeVars, ringVars >>

\* Node.Stop: the change of state started -> stopped, or nothing.
Stop(t) ==
  /\ CanCall(t)
  /\ LET cas == changeState(state, started, stopped)
     IN  /\ state' = cas.state
         /\ IF cas.ok
              THEN /\ tpc' = [tpc EXCEPT ![t] = "stop_close"]
                   /\ wins' = [wins EXCEPT !.stop = @ + 1, !.stopCalls = @ + 1]
              ELSE /\ wins' = [wins EXCEPT !.stopCalls = @ + 1]
                   /\ UNCHANGED tpc
  /\ tres' = [tres EXCEPT ![t] = "none"]
  /\ UNCHANGED << exports, listener, addr, server, ring, tasks, fatal, targ, iter, closes >>
  /\ UNCHANGED << storeVars, ringVars >>

\* Node.Stop: self.getListener().Close(); on a nil or closed listener Close
\* returns an error, which Stop drops.
StopClose(t) ==
  /\ ~fatal
  /\ tpc[t] = "stop_close"
  /\ listener' = IF listener = "open" THEN "closed" ELSE listener
  /\ closes' = closes + 1
  /\ tpc' = [tpc EXCEPT ![t] = "idle"]
  /\ UNCHANGED << state, exports, addr, server, ring, tasks, fatal, targ, tres, iter,
                  ncalls, wins >>
  /\ UNCHANGED << storeVars, ringVars >>

\* The accept loop spawned by Start (go server.Accept(self.getListener())):
\* Accept on a closed listener fails and the loop ends.
AcceptReturn ==
  /\ ~fatal
  /\ "accept" \in tasks
  /\ listener = "closed"
  /\ tasks' = tasks \ {"accept"}
  /\ UNCHANGED << state, exports, listener, addr, server, ring, fatal, tpc, targ, tres,
                  iter, ncalls, wins, closes >>
  /\ UNCHANGED << storeVars, ringVars >>

(* ------------------------- the cluster of Nodes ------------------------ *)

\* The nodes of the cluster, named by their addresses.  A Remote is a
\* (position, address) pair; a node's position is fixed before its Remote
\* enters any other node's view, so that the address names the Remote.
Members == {"A", "B", "C"}

\* The nil *common.Remote.
nil == "nil"

\* The goroutines of a node: its two periodic tasks, the caller of its Join,
\* and a caller of GetSuccessor and RemoveNode.
Tasks == {"notify", "ping", "join", "api"}

\* The positions a placement may hand out; 0 is the unset position.
Slots == 1..(MaxPos - 1)

\* The keys looked up with GetSuccessor.
Keys == 0..MaxPos

\* The members of view v with the largest and the smallest position.
Last(v) == CHOOSE x \in v : \A y \in v : positions[y] <= positions[x]

First(v) == CHOOSE x \in v : \A y \in v : positions[x] <= positions[y]

\* common.Ring.Remotes(pos): the member before pos, the member at pos or nil,
\* and the member after pos, around the ring; all nil for an empty ring.
Remotes(v, p) ==
  LET lower == {x \in v : positions[x] < p}
      at    == {x \in v : positions[x] = p}
      upper == {x \in v : positions[x] > p}
  IN  IF v = {} THEN [pred |-> nil, match |-> nil, succ |-> nil]
      ELSE [pred  |-> IF lower # {} THEN Last(lower) ELSE Last(v),
            match |-> IF at # {} THEN CHOOSE x \in at : TRUE ELSE nil,
            succ  |-> IF upper # {} THEN First(upper) ELSE First(v)]

\* common.Ring.Add, Remove, SetNodes and Nodes.
RingAdd(v, x) == v \cup {x}

RingRemove(v, x) == v \ {x}

RingSetNodes(v, list) == list

RingNodes(v) == v

\* Position p lies strictly between from and to, going round the ring.
Between(p, from, to) ==
  IF from < to THEN from < p /\ p < to ELSE p > from \/ p < to

\* common.Ring.Clean(from, to): drops the members strictly between the two.
RingClean(v, from, to) == {x \in v : ~Between(positions[x], from, to)}

\* remote.Call succeeds on a node whose process runs and whose listener is
\* open.
Reachable(m) == m \in Members /\ down[m] = "up" /\ open[m]

\* A node's position is set: the first node keeps the zero position, the
\* others get theirs in Join.
Placed(n) == n = "A" \/ positions[n] # 0

\* No call of RemoveNode.
NoCall == [node |-> nil, task |-> nil, arg |-> nil, called |-> nil]

\* A task's local variables; entry and tries are history: the other members
\* of the view when pingPredecessor was entered, and its calls of itself.
NoLoc == [peer |-> nil, succ |-> nil, pred |-> nil, list |-> {}, key |-> 0,
          entry |-> 0, tries |-> 0]

\* The cluster after NewNode and Start on each of ms; cyc bounds the periodic
\* tasks' cycles and api the calls from outside.
ClusterInit(ms, cyc, api) ==
  /\ rings = [n \in Members |-> IF n \in ms THEN {n} ELSE {}]
  /\ positions = [n \in Members |-> 0]
  /\ states = [n \in Members |-> IF n \in ms THEN started ELSE created]
  /\ open = [n \in Members |-> n \in ms]
  /\ down = [n \in Members |-> "up"]
  /\ gpc = [n \in Members |-> [t \in Tasks |->
              IF n \notin ms THEN "off"
              ELSE IF t \in {"notify", "ping"} THEN "check" ELSE "idle"]]
  /\ loc = [n \in Members |-> [t \in Tasks |-> NoLoc]]
  /\ cyclesLeft = cyc
  /\ apiLeft = api
  /\ outagesLeft = IF ms = {} \/ cyc < 0 THEN 0 ELSE MaxOutages
  /\ removeCall = NoCall
  /\ pruned = [n \in Members |-> {}]
  /\ began = [n \in Members |-> [t \in Tasks |-> FALSE]]

\* Task t of node n moves to p with locals l.
Goto(n, t, p, l) ==
  /\ gpc' = [gpc EXCEPT ![n][t] = p]
  /\ loc' = [loc EXCEPT ![n][t] = l]

\* Task t of node n is at p, and its process runs.
At(n, t, p) == down[n] = "up" /\ gpc[n][t] = p

\* Task t of node n is within an operation.
InProgress(n, t) == gpc[n][t] \notin {"check", "idle", "off"}

\* Fewer than MaxBusy operations are in progress: one more may begin.
CanBegin == Cardinality({nt \in Members \X Tasks : InProgress(nt[1], nt[2])}) < MaxBusy

\* Task t of node n sets the view of node m to v, which ends its operation
\* when done; the history notes the change for the other tasks that are
\* within an operation on that view.
WriteRing(m, v, n, t, done) ==
  /\ rings' = [rings EXCEPT ![m] = v]
  /\ began' = [x \in Members |-> [u \in Tasks |->
                 IF <<x, u>> = <<n, t>>
                   THEN began[x][u] /\ ~done
                   ELSE began[x][u] \/ (x = m /\ v # rings[m] /\ InProgress(x, u))]]

\* The operation of task t of node n ends without a change of a view.
Done(n, t) == began' = [began EXCEPT ![n][t] = FALSE]

\* A panic ends the process of node n with all its goroutines.
Panic(n, how) ==
  /\ down' = [down EXCEPT ![n] = how]
  /\ gpc' = [gpc EXCEPT ![n] = [t \in Tasks |-> "off"]]
  /\ loc' = [loc EXCEPT ![n] = [t \in Tasks |-> NoLoc]]

\* RemoveNode without its test.
RemoveNode_unguarded(v, self, x) == [panic |-> FALSE, ring |-> RingRemove(v, x)]

\* Node.RemoveNode(remote) on the node self with view v: the panic, or the
\* view without the remote.
RemoveNode(v, self, x) ==
  IF x = self THEN [panic |-> TRUE, ring |-> v]
              ELSE [panic |-> FALSE, ring |-> RingRemove(v, x)]

\* Task t of node n calls RemoveNode(x) after its remote call of node
\* called failed (called is nil for a call from outside), and goes on at p
\* with locals l.
CallRemoveNode(n, t, x, called, p, l) ==
  LET rm == RemoveNode(rings[n], n, x)
  IN  /\ removeCall' = [node |-> n, task |-> t, arg |-> x, called |-> called]
      /\ pruned' = IF t \in {"notify", "ping"} /\ ~rm.panic
                     THEN [pruned EXCEPT ![n] = @ \cup {x}] ELSE pruned
      /\ WriteRing(n, rm.ring, n, t, rm.panic \/ p \in {"check", "idle"})
      /\ IF rm.panic
           THEN Panic(n, "remove_self")
           ELSE /\ Goto(n, t, p, l)
                /\ down' = down

\* One turn of the loop of notifyPeriodically or pingPeriodically after its
\* sleep: the task ends unless the state is started; else notifySuccessor
\* begins with _, _, successor := self.ring.Remotes(self.GetPosition()) and
\* pingPredecessor with predecessor := self.GetPredecessor().  On an empty
\* ring the Remote is nil and its use panics.
PeriodicCheck(n, t) ==
  /\ t \in {"notify", "ping"}
  /\ At(n, t, "check")
  /\ IF hasState(states[n], started)
       THEN /\ cyclesLeft # 0
            /\ CanBegin
            /\ cyclesLeft' = IF cyclesLeft > 0 THEN cyclesLeft - 1 ELSE cyclesLeft
            /\ LET rs == Remotes(rings[n], positions[n])
                    to == IF t = "notify" THEN rs.succ ELSE rs.pred
               IN  IF to = nil
                     THEN Panic(n, "nil_remote")
                     ELSE /\ Goto(n, t, "call",
                                  [NoLoc EXCEPT !.peer = to,
                                                !.entry = Cardinality(rings[n] \ {n})])
                          /\ down' = down
       ELSE /\ Goto(n, t, "off", NoLoc)
            /\ UNCHANGED << cyclesLeft, down >>
  /\ removeCall' = NoCall
  /\ UNCHANGED << rings, positions, states, open, apiLeft, outagesLeft,
                  pruned, began >>
  /\ UNCHANGED << storeVars, nodeVars >>

\* notifySuccessor: the call of Node.Notify failed; RemoveNode(*successor).
NsFail(n) ==
  /\ \/ At(n, "notify", "call") /\ ~Reachable(loc[n]["notify"].peer)
     \/ At(n, "notify", "nodes") /\ down[loc[n]["notify"].peer] # "up"
  /\ CallRemoveNode(n, "notify", loc[n]["notify"].peer, loc[n]["notify"].peer,
                    "check", NoLoc)
  /\ UNCHANGED << positions, states, open, cyclesLeft, apiLeft, outagesLeft >>
  /\ UNCHANGED << storeVars, nodeVars >>

\* Node.Notify served by the callee for task t of node n (notifySuccessor or
\* Join): self.ring.Add(caller).
NotifyAdd(n, t) ==
  /\ t \in {"notify", "join"}
  /\ At(n, t, "call")
  /\ LET m == loc[n][t].peer
     IN  /\ Reachable(m)
         /\ WriteRing(m, RingAdd(rings[m], n), n, t, FALSE)
         /\ pruned' = [x \in Members |-> pruned[x] \ {n}]
  /\ Goto(n, t, "nodes", loc[n][t])
  /\ removeCall' = NoCall
  /\ UNCHANGED << positions, states, open, down, cyclesLeft, apiLeft, outagesLeft >>
  /\ UNCHANGED << storeVars, nodeVars >>

\* Node.Notify served by the callee: return self.ring.Nodes().
NotifyNodes(n, t) ==
  /\ t \in {"notify", "join"}
  /\ At(n, t, "nodes")
  /\ LET m == loc[n][t].peer
     IN  /\ down[m] = "up"
         /\ Goto(n, t, "returned", [loc[n][t] EXCEPT !.list = RingNodes(rings[m])])
  /\ removeCall' = NoCall
  /\ UNCHANGED << rings, positions, states, open, down, cyclesLeft, apiLeft,
                  outagesLeft, pruned, began >>
  /\ UNCHANGED << storeVars, nodeVars >>

\* notifySuccessor after the call: predecessor := self.GetPredecessor(); on
\* an empty ring GetPredecessor dereferences nil.
NsPred(n) ==
  /\ At(n, "notify", "returned")
  /\ LET pred == Remotes(rings[n], positions[n]).pred
     IN  IF pred = nil
           THEN Panic(n, "nil_remote")
           ELSE /\ Goto(n, "notify", "set", [loc[n]["notify"] EXCEPT !.pred = pred])
                /\ down' = down
  /\ removeCall' = NoCall
  /\ UNCHANGED << rings, positions, states, open, cyclesLeft, apiLeft, outagesLeft, pruned, began >>
  /\ UNCHANGED << storeVars, nodeVars >>

\* notifySuccessor: self.ring.SetNodes(newNodes).
NsSetNodes(n) ==
  /\ At(n, "notify", "set")
  /\ WriteRing(n, RingSetNodes(rings[n], loc[n]["notify"].list), n, "notify", FALSE)
  /\ Goto(n, "notify", "add", loc[n]["notify"])
  /\ removeCall' = NoCall
  /\ UNCHANGED << positions, states, open, down, cyclesLeft, apiLeft, outagesLeft, pruned >>
  /\ UNCHANGED << storeVars, nodeVars >>

\* notifySuccessor without its self.ring.Add(predecessor).
NsAdd_skipped(n) ==
  /\ At(n, "notify", "add")
  /\ Goto(n, "notify", "clean", loc[n]["notify"])
  /\ removeCall' = NoCall
  /\ UNCHANGED << rings, positions, states, open, down, cyclesLeft, apiLeft, outagesLeft,
                  pruned, began >>
  /\ UNCHANGED << storeVars, nodeVars >>

\* notifySuccessor: self.ring.Add(predecessor).
NsAdd(n) ==
  /\ At(n, "notify", "add")
  /\ WriteRing(n, RingAdd(rings[n], loc[n]["notify"].pred), n, "notify", FALSE)
  /\ Goto(n, "notify", "clean", loc[n]["notify"])
  /\ removeCall' = NoCall
  /\ UNCHANGED << positions, states, open, down, cyclesLeft, apiLeft, outagesLeft, pruned >>
  /\ UNCHANGED << storeVars, nodeVars >>

\* notifySuccessor: Clean(predecessor.Pos, self.GetPosition()) unless the
\* predecessor is the node itself; the cycle is over and the task sleeps.
NsClean(n) ==
  /\ At(n, "notify", "clean")
  /\ LET pred == loc[n]["notify"].pred
     IN  WriteRing(n, IF pred # n
                        THEN RingClean(rings[n], positions[pred], positions[n])
                        ELSE rings[n], n, "notify", TRUE)
  /\ Goto(n, "notify", "check", NoLoc)
  /\ removeCall' = NoCall
  /\ UNCHANGED << positions, states, open, down, cyclesLeft, apiLeft, outagesLeft, pruned >>
  /\ UNCHANGED << storeVars, nodeVars >>

\* pingPredecessor called by itself: predecessor := self.GetPredecessor().
PpPred(n) ==
  /\ At(n, "ping", "retry")
  /\ LET pred == Remotes(rings[n], positions[n]).pred
     IN  IF pred = nil
           THEN Panic(n, "nil_remote")
           ELSE /\ Goto(n, "ping", "call", [loc[n]["ping"] EXCEPT !.peer = pred])
                /\ down' = down
  /\ removeCall' = NoCall
  /\ UNCHANGED << rings, positions, states, open, cyclesLeft, apiLeft, outagesLeft, pruned, began >>
  /\ UNCHANGED << storeVars, nodeVars >>

\* pingPredecessor: the call of Node.Ping succeeded; the cycle is over and
\* the task sleeps.
PpOk(n) ==
  /\ At(n, "ping", "call")
  /\ Reachable(loc[n]["ping"].peer)
  /\ Goto(n, "ping", "check", NoLoc)
  /\ Done(n, "ping")
  /\ removeCall' = NoCall
  /\ UNCHANGED << rings, positions, states, open, down, cyclesLeft, apiLeft,
                  outagesLeft, pruned >>
  /\ UNCHANGED << storeVars, nodeVars >>

\* pingPredecessor: the call failed; RemoveNode(predecessor), and
\* pingPredecessor again.
PpFail(n) ==
  /\ At(n, "ping", "call")
  /\ ~Reachable(loc[n]["ping"].peer)
  /\ CallRemoveNode(n, "ping", loc[n]["ping"].peer, loc[n]["ping"].peer, "retry",
                    [NoLoc EXCEPT !.entry = loc[n]["ping"].entry,
                                  !.tries = loc[n]["ping"].tries + 1])
  /\ UNCHANGED << positions, states, open, cyclesLeft, apiLeft, outagesLeft >>
  /\ UNCHANGED << storeVars, nodeVars >>

\* Node.Join(addr) on a node without a position: the call of Node.Ring on
\* the seed and SetPosition(GetSlot()), a position none of the members has;
\* or the error of the call.  Of the two joining nodes B is the first to
\* call Join.
JoinRing(n, seed, slot) ==
  /\ At(n, "join", "idle")
  /\ n # seed
  /\ ~Placed(n)
  /\ Placed(seed)
  /\ n = "C" => Placed("B")
  /\ CanBegin
  /\ slot \notin {positions[x] : x \in Members}
  /\ IF Reachable(seed)
       THEN /\ positions' = [positions EXCEPT ![n] = slot]
            /\ Goto(n, "join", "call", [NoLoc EXCEPT !.peer = seed])
       ELSE /\ Goto(n, "join", "off", NoLoc)
            /\ UNCHANGED positions
  /\ removeCall' = NoCall
  /\ UNCHANGED << rings, states, open, down, cyclesLeft, apiLeft, outagesLeft,
                  pruned, began >>
  /\ UNCHANGED << storeVars, nodeVars >>

\* Node.Join: the call of Node.Notify failed; Join returns the error.
JoinFail(n) ==
  /\ \/ At(n, "join", "call") /\ ~Reachable(loc[n]["join"].peer)
     \/ At(n, "join", "nodes") /\ down[loc[n]["join"].peer] # "up"
  /\ Goto(n, "join", "off", NoLoc)
  /\ Done(n, "join")
  /\ removeCall' = NoCall
  /\ UNCHANGED << rings, positions, states, open, down, cyclesLeft, apiLeft,
                  outagesLeft, pruned >>
  /\ UNCHANGED << storeVars, nodeVars >>

\* Node.Join: self.ring.SetNodes(newNodes), and return nil.
JoinSetNodes(n) ==
  /\ At(n, "join", "returned")
  /\ WriteRing(n, RingSetNodes(rings[n], loc[n]["join"].list), n, "join", TRUE)
  /\ Goto(n, "join", "off", NoLoc)
  /\ removeCall' = NoCall
  /\ UNCHANGED << positions, states, open, down, cyclesLeft, apiLeft, outagesLeft, pruned >>
  /\ UNCHANGED << storeVars, nodeVars >>

\* A call of Node.GetSuccessor(key) on node n begins.
GetSuccessor(n, key) ==
  /\ At(n, "api", "idle")
  /\ apiLeft > 0
  /\ apiLeft' = apiLeft - 1
  /\ CanBegin
  /\ Goto(n, "api", "locate", [NoLoc EXCEPT !.key = key])
  /\ removeCall' = NoCall
  /\ UNCHANGED << rings, positions, states, open, down, cyclesLeft, outagesLeft, pruned, began >>
  /\ UNCHANGED << storeVars, nodeVars >>

\* GetSuccessor: predecessor, match, successor := self.ring.Remotes(key),
\* with the match in place of the predecessor when there is one.  When that
\* node is the node itself GetSuccessor returns the successor; else it calls
\* that node.
GsRemotes(n) ==
  /\ At(n, "api", "locate")
  /\ LET rs == Remotes(rings[n], loc[n]["api"].key)
         to == IF rs.match # nil THEN rs.match ELSE rs.pred
     IN  IF to = nil
           THEN Panic(n, "nil_remote")
           ELSE /\ down' = down
                /\ IF to = n
                     THEN Goto(n, "api", "idle", [NoLoc EXCEPT !.succ = rs.succ])
                     ELSE Goto(n, "api", "call",
                               [loc[n]["api"] EXCEPT !.peer = to, !.succ = rs.succ])
  /\ began' = [began EXCEPT ![n]["api"] = @ /\ gpc'[n]["api"] = "call"]
  /\ removeCall' = NoCall
  /\ UNCHANGED << rings, positions, states, open, cyclesLeft, apiLeft, outagesLeft, pruned >>
  /\ UNCHANGED << storeVars, nodeVars >>

\* GetSuccessor: the call of Node.GetSuccessor on the located node succeeded;
\* its answer is returned.
GsOk(n) ==
  /\ At(n, "api", "call")
  /\ Reachable(loc[n]["api"].peer)
  /\ Goto(n, "api", "idle", NoLoc)
  /\ Done(n, "api")
  /\ removeCall' = NoCall
  /\ UNCHANGED << rings, positions, states, open, down, cyclesLeft, apiLeft,
                  outagesLeft, pruned >>
  /\ UNCHANGED << storeVars, nodeVars >>

\* GetSuccessor: the call failed; self.RemoveNode(*successor), and
\* GetSuccessor(key) again.
GsFail(n) ==
  /\ At(n, "api", "call")
  /\ ~Reachable(loc[n]["api"].peer)
  /\ CallRemoveNode(n, "api", loc[n]["api"].succ, loc[n]["api"].peer, "locate",
                    [NoLoc EXCEPT !.key = loc[n]["api"].key,
                                  !.tries = loc[n]["api"].tries + 1])
  /\ UNCHANGED << positions, states, open, cyclesLeft, apiLeft, outagesLeft >>
  /\ UNCHANGED << storeVars, nodeVars >>

\* A call of Node.RemoveNode(x) on node n from outside.
ApiRemoveNode(n, x) ==
  /\ At(n, "api", "idle")
  /\ apiLeft > 0
  /\ apiLeft' = apiLeft - 1
  /\ CallRemoveNode(n, "api", x, nil, "idle", NoLoc)
  /\ UNCHANGED << positions, states, open, cyclesLeft, outagesLeft >>
  /\ UNCHANGED << storeVars, nodeVars >>

\* Node.Stop on node n: the change of state started -> stopped.
StopNode(n) ==
  /\ At(n, "api", "idle")
  /\ outagesLeft > 0
  /\ CanBegin
  /\ outagesLeft' = outagesLeft - 1
  /\ LET cas == changeState(states[n], started, stopped)
     IN  /\ states' = [states EXCEPT ![n] = cas.state]
         /\ Goto(n, "api", IF cas.ok THEN "close" ELSE "idle", NoLoc)
  /\ removeCall' = NoCall
  /\ UNCHANGED << rings, positions, open, down, cyclesLeft, apiLeft, pruned,
                  began >>
  /\ UNCHANGED << storeVars, nodeVars >>

\* Node.Stop: self.getListener().Close().
StopNodeClose(n) ==
  /\ At(n, "api", "close")
  /\ open' = [open EXCEPT ![n] = FALSE]
  /\ Goto(n, "api", "idle", NoLoc)
  /\ removeCall' = NoCall
  /\ UNCHANGED << rings, positions, states, down, cyclesLeft, apiLeft, outagesLeft, pruned, began >>
  /\ UNCHANGED << storeVars, nodeVars >>

\* The process of node n is killed.
Kill(n) ==
  /\ down[n] = "up"
  /\ states[n] = started
  /\ outagesLeft > 0
  /\ outagesLeft' = outagesLeft - 1
  /\ Panic(n, "killed")
  /\ began' = [began EXCEPT ![n] = [t \in Tasks |-> FALSE]]
  /\ removeCall' = NoCall
  /\ UNCHANGED << rings, positions, states, open, cyclesLeft, apiLeft, pruned >>
  /\ UNCHANGED << storeVars, nodeVars >>

(* -------------------------- the specifications ------------------------- *)

vars == << storeVars, nodeVars, ringVars >>

StoreNext ==
  \/ \E c \in Procs, o \in Operations : Call(c, o)
  \/ \E c \in Procs : PutSend(c)
  \/ \E c \in Procs : PutApply(c)
  \/ LoadDecode
  \/ LoadEOF
  \/ LoadDone
  \/ LogCreate
  \/ LogRecv
  \/ LogEncode

InitSeq == StoreInit({1}, Snapshots) /\ NewNode("") /\ ClusterInit({}, 0, 0)

NextSeq == StoreNext \/ Restart

SpecSeq == InitSeq /\ [][NextSeq]_vars

InitConc == StoreInit({1, 2}, Snapshots) /\ NewNode("") /\ ClusterInit({}, 0, 0)

SpecConc == InitConc /\ [][StoreNext]_vars

InitNode ==
  /\ StoreInit({}, {<<>>})
  /\ \E a \in {"", "host:1"} : NewNode(a)
  /\ ClusterInit({}, 0, 0)

NextNode ==
  \/ \E t \in Threads, name \in Names, api \in Apis : Export(t, name, api)
  \/ \E t \in Threads : ExportWrite(t)
  \/ \E t \in Threads : Start(t)
  \/ \E t \in Threads : StartAddr(t)
  \/ \E t \in Threads : StartListen(t)
  \/ \E t \in Threads : StartRegister(t)
  \/ \E t \in Threads : StartGo(t)
  \/ \E t \in Threads : Stop(t)
  \/ \E t \in Threads : StopClose(t)
  \/ AcceptReturn

SpecNode == InitNode /\ [][NextNode]_vars

\* The steps of the periodic tasks and of Join, and the outages.
NextGossip ==
  \/ \E n \in Members, t \in Tasks : PeriodicCheck(n, t)
  \/ \E n \in Members : NsFail(n)
  \/ \E n \in Members, t \in Tasks : NotifyAdd(n, t)
  \/ \E n \in Members, t \in Tasks : NotifyNodes(n, t)
  \/ \E n \in Members : NsPred(n)
  \/ \E n \in Members : NsSetNodes(n)
  \/ \E n \in Members : NsAdd(n)
  \/ \E n \in Members : NsClean(n)
  \/ \E n \in Members : PpPred(n)
  \/ \E n \in Members : PpOk(n)
  \/ \E n \in Members : PpFail(n)
  \/ \E n \in Members, seed \in Members, slot \in Slots : JoinRing(n, seed, slot)
  \/ \E n \in Members : JoinFail(n)
  \/ \E n \in Members : JoinSetNodes(n)
  \/ \E n \in Members : StopNode(n)
  \/ \E n \in Members : StopNodeClose(n)
  \/ \E n \in Members : Kill(n)

\* The calls from outside.
NextApi ==
  \/ \E n \in Members, key \in Keys : GetSuccessor(n, key)
  \/ \E n \in Members : GsRemotes(n)
  \/ \E n \in Members : GsOk(n)
  \/ \E n \in Members : GsFail(n)
  \/ \E n \in Members, x \in Members : ApiRemoveNode(n, x)

\* The cluster with its periodic tasks, and no calls from outside.
InitRing ==
  /\ StoreInit({}, {<<>>})
  /\ NewNode("")
  /\ ClusterInit(Members, MaxCycles, 0)

SpecRing == InitRing /\ [][NextGossip]_vars

\* The steps of task t of node n, with those the node it calls takes for it.
TaskStep(n, t) ==
  \/ PeriodicCheck(n, t)
  \/ NotifyAdd(n, t)
  \/ NotifyNodes(n, t)
  \/ t = "notify" /\ (NsFail(n) \/ NsPred(n) \/ NsSetNodes(n) \/ NsAdd(n) \/ NsClean(n))
  \/ t = "ping" /\ (PpPred(n) \/ PpOk(n) \/ PpFail(n))

\* A cluster of two nodes under a scheduler that lets every periodic task
\* that can take a step take one.
InitPair ==
  /\ StoreInit({}, {<<>>})
  /\ NewNode("")
  /\ ClusterInit({"A", "B"}, MaxCycles, 0)

SpecPairFair ==
  /\ InitPair
  /\ [][NextGossip]_vars
  /\ \A n \in Members, t \in {"notify", "ping"} : WF_vars(TaskStep(n, t))

\* The three nodes with no outage and no bound on the cycles: B joins A,
\* then C joins B, while the periodic tasks run.
InitConv ==
  /\ StoreInit({}, {<<>>})
  /\ NewNode("")
  /\ ClusterInit(Members, -1, 0)

NextConv ==
  \/ \E n \in Members, t \in Tasks : PeriodicCheck(n, t)
  \/ \E n \in Members, t \in Tasks : NotifyAdd(n, t)
  \/ \E n \in Members, t \in Tasks : NotifyNodes(n, t)
  \/ \E n \in Members : NsPred(n)
  \/ \E n \in Members : NsSetNodes(n)
  \/ \E n \in Members : NsAdd(n)
  \/ \E n \in Members : NsClean(n)
  \/ \E n \in Members : PpOk(n)
  \/ \E slot \in Slots : JoinRing("B", "A", slot)
  \/ gpc["B"]["join"] = "off" /\ \E slot \in Slots : JoinRing("C", "B", slot)
  \/ \E n \in Members : JoinSetNodes(n)

\* The steps of the Join of node n.
JoinStep(n) ==
  \/ \E seed \in Members, slot \in Slots : JoinRing(n, seed, slot)
  \/ NotifyAdd(n, "join")
  \/ NotifyNodes(n, "join")
  \/ JoinSetNodes(n)

\* Every task that can take a step again and again takes one: no task waits
\* for ever for the others to end their operations.
SpecConv ==
  /\ InitConv
  /\ [][NextConv]_vars
  /\ \A n \in Members, t \in {"notify", "ping"} : SF_vars(TaskStep(n, t) /\ NextConv)
  /\ \A n \in Members : SF_vars(JoinStep(n) /\ NextConv)

\* The nodes A and B with their periodic tasks and calls from outside.
InitApi ==
  /\ StoreInit({}, {<<>>})
  /\ NewNode("")
  /\ ClusterInit({"A", "B"}, MaxCycles, MaxApi)

SpecApi == InitApi /\ [][NextGossip \/ NextApi]_vars

(* ------------------------ the store's properties ----------------------- *)

\* The arities of the command protocol.
Arity(cmd) ==
  CASE cmd = GET    -> 1
    [] cmd = PUT    -> 2
    [] cmd = DELETE -> 1
    [] cmd = KEYS   -> 0

IsCommand(o) == o.Command \in {GET, PUT, DELETE, KEYS}

ArityCorrect(o) == IsCommand(o) /\ Len(o.Parameters) = Arity(o.Command)

IsMutation(o) == o.Command \in {PUT, DELETE} /\ ArityCorrect(o)

\* This step completes a Perform (the one last' describes).
Completes == last'.seq = last.seq + 1

\* The PUTs on key k in a sequence of operations.
PutsOn(ops, k) == SelectSeq(ops, LAMBDA o : o.Parameters[1] = k)

\* What the log writer has written to its file, and what it holds.
Written == IF wname \in DOMAIN dir THEN dir[wname] ELSE <<>>

InHand == IF wpc = "encode" THEN <<whand>> ELSE <<>>

\* How often an operation occurs in a sequence.
Count(ops, o) == Cardinality({i \in 1..Len(ops) : ops[i] = o})

\* C1: when a process that had written every queued record to disk ends, the
\* store NewGod rebuilds from the directory (snapshot, then the .log files in
\* ascending name order) holds the mapping the live store held.
C1_ReplayEqualsLive ==
  (main = "serving" /\ lives > 1 /\ ~last.live /\ prev.clean)
     => Contents(hashes) = prev.kv

\* C2: a GET of a key whose last mutation was PUT [k, v] returns OK|EXISTS
\* with Parts = [v], whatever was done to other keys since.
C2_GetAfterPut ==
  (last.seq > 0 /\ last.op.Command = GET /\ ArityCorrect(last.op)
     /\ ref[last.op.Parameters[1]] # <<>>)
     => last.resp = [Result |-> BitOr(OK, EXISTS), Parts |-> ref[last.op.Parameters[1]]]

\* A live GET of "b" answered with the value of the last PUT on "b", while
\* "a", a key of the same shard, holds another value.
C2_Witness ==
  /\ last.live
  /\ last.op = [Command |-> GET, Parameters |-> <<"b">>]
  /\ last.resp = [Result |-> BitOr(OK, EXISTS), Parts |-> <<"a">>]
  /\ ref["a"] = <<"b">>
  /\ shard("a").hash = shard("b").hash

\* C3: a Perform of GET, PUT, DELETE or KEYS with the wrong number of
\* parameters returns BAD|ARITY with one part, changes no shard map and sends
\* nothing to the log queue.
C3_ArityMismatchRejected ==
  [][ (Completes /\ IsCommand(last'.op) /\ ~ArityCorrect(last'.op))
        => /\ last'.resp.Result = BitOr(BAD, ARITY)
           /\ Len(last'.resp.Parts) = 1
           /\ hashes' = hashes
           /\ logChannel' = logChannel
           /\ sent' = sent
           /\ last'.appended = <<>> ]_vars

\* A live PUT with one parameter was rejected, and its key is not in the maps.
C3_Witness ==
  /\ last.live
  /\ last.op = [Command |-> PUT, Parameters |-> <<"c">>]
  /\ last.resp.Result = BitOr(BAD, ARITY)
  /\ "c" \notin AllKeys(hashes)

\* C4: PUT [k, v] returns OK|EXISTS with the previous value of k, or
\* OK|MISSING with [""] when k was absent; DELETE [k] of a present key
\* returns OK|EXISTS with the removed value; GET [k] of a deleted key returns
\* OK|MISSING with no parts.  The previous value is that of the last PUT on k
\* not followed by a DELETE on k.
C4_PreviousValueReported ==
  [][ (Completes /\ ArityCorrect(last'.op) /\ last'.op.Command \in {GET, PUT, DELETE})
        => LET o   == last'.op
               old == ref[o.Parameters[1]]
           IN  /\ (o.Command = PUT /\ old # <<>>)
                     => last'.resp = [Result |-> BitOr(OK, EXISTS), Parts |-> old]
               /\ (o.Command = PUT /\ old = <<>>)
                     => last'.resp = [Result |-> BitOr(OK, MISSING), Parts |-> <<"">>]
               /\ (o.Command = DELETE /\ old # <<>>)
                     => last'.resp = [Result |-> BitOr(OK, EXISTS), Parts |-> old]
               /\ (o.Command = GET /\ old = <<>>)
                     => last'.resp = [Result |-> BitOr(OK, MISSING), Parts |-> <<>>] ]_vars

\* A live DELETE removed "a" and reported the value "a" that a live PUT had
\* stored over the snapshot's.
C4_Witness ==
  /\ last.live
  /\ last.op = [Command |-> DELETE, Parameters |-> <<"a">>]
  /\ last.resp = [Result |-> BitOr(OK, EXISTS), Parts |-> <<"a">>]
  /\ applied # <<>>

\* C5: DELETE [k] of an absent key returns a result with MISSING and the one
\* part "", leaves the mapping as it was, and answers the same when repeated.
C5_DeleteAbsentIdempotent ==
  [][ (Completes /\ last'.op.Command = DELETE /\ ArityCorrect(last'.op)
         /\ ref[last'.op.Parameters[1]] = <<>>)
        => /\ BitAnd(last'.resp.Result, MISSING) = MISSING
           /\ last'.resp.Parts = <<"">>
           /\ Contents(hashes') = Contents(hashes)
           /\ (last.seq > 0 /\ last.op = last'.op
                 /\ BitAnd(last.resp.Result, MISSING) = MISSING)
                 => last'.resp = last.resp ]_vars

\* A live DELETE of the absent key "c" came twice in a row with the same answer.
C5_Witness ==
  /\ last.live
  /\ last.op = [Command |-> DELETE, Parameters |-> <<"c">>]
  /\ last.resp = [Result |-> BitOr(OK, MISSING), Parts |-> <<"">>]
  /\ last.rep = 2

\* C6: an operation sends itself to the log queue exactly once when it is an
\* arity-correct PUT or DELETE performed with logging enabled, and sends
\* nothing otherwise.
C6_LogRecordsExactlyMutations ==
  last.seq > 0
     => last.appended = IF last.live /\ IsMutation(last.op) THEN <<last.op>> ELSE <<>>

\* C7: with no call running, the logged PUTs on each key entered the log queue
\* in the order in which they reached the shard map.
C7_LogOrderIsApplyOrder ==
  Idle => \A k \in Strs : PutsOn(sent, k) = PutsOn(applied, k)

\* C8: the queue never holds more than its capacity; a put waiting to send
\* has not touched the maps (every PUT that reached the maps was sent first);
\* and what was sent is, in order, what the writer wrote, what it holds and
\* what is queued: nothing dropped, duplicated or reordered.
C8_QueueBoundedFifo ==
  /\ Len(logChannel) <= backlog
  /\ \A o \in Operations :
        Count(applied, o) + Cardinality({c \in Procs : pc[c] = "apply" /\ cur[c] = o})
          = Count(sent, o)
  /\ sent = Written \o InHand \o logChannel

\* A caller waits to send its PUT while the queue is full, and the key it
\* puts is not in the maps.
C8_Witness ==
  /\ Len(logChannel) = backlog
  /\ \E c \in Procs : pc[c] = "send" /\ cur[c].Parameters[1] \notin AllKeys(hashes)

(* ------------------------ the Node's properties ------------------------ *)

\* What the calls of the Node share.
nodeShared == << state, exports, listener, addr, server, ring, tasks >>

\* C9: the state moves only created -> started -> stopped; of the Start calls
\* exactly one changes it and of the Stop calls at most one does, which alone
\* closes the listener; a Start that does not change it returns an error and
\* leaves the Node as it was, and so does a Stop of a Node still created.
C9_LifecycleOneWinner ==
  [][ /\ \/ state' = state
         \/ state = created /\ state' = started
         \/ state = started /\ state' = stopped
      /\ wins'.start <= 1
      /\ wins'.startCalls > 0 => wins'.start = 1
      /\ wins'.stop <= 1
      /\ closes' <= wins'.stop
      /\ (wins'.startCalls = wins.startCalls + 1 /\ wins'.start = wins.start)
            => /\ UNCHANGED nodeShared
               /\ tpc' = tpc
               /\ \E t \in Threads : tres'[t] = "error"
      /\ (wins'.stopCalls = wins.stopCalls + 1 /\ state = created)
            => /\ UNCHANGED nodeShared
               /\ tpc' = tpc ]_vars

\* Two Start calls and two Stop calls have returned: one of each changed the
\* state, and the listener was closed once.
C9_Witness ==
  /\ state = stopped
  /\ wins = [start |-> 1, startCalls |-> 2, stop |-> 1, stopCalls |-> 2]
  /\ closes = 1
  /\ listener = "closed"
  /\ \A t \in Threads : tpc[t] = "idle"

\* C10: once the state is not created no step adds or replaces an entry of
\* exports, and when Start has returned nil every entry of exports (every
\* api whose Export returned nil) is registered on the server.
C10_ExportOnlyWhileCreated ==
  [][ /\ state # created => exports' = exports
      /\ tasks' # {} => \A n \in DOMAIN exports' :
                           n \in DOMAIN server' /\ server'[n] = exports'[n] ]_vars

\* C11: when no call of the Node is running and its state is stopped, the
\* listener is not open: it was closed, so that the accept loop ends, or it
\* was never bound.
C11_StopClosesListener ==
  (state = stopped /\ \A t \in Threads : tpc[t] = "idle") => listener # "open"

(* ----------------------- the cluster's properties ---------------------- *)

\* The periodic tasks.
Periodic == {"notify", "ping"}

\* C12: a periodic task begins a cycle only in a turn of its loop taken
\* while the state is started; a turn taken once the state is stopped ends
\* the task, which never runs again; and when the state is stopped both
\* tasks of the node end eventually.
C12_TasksExitAfterStop ==
  /\ [][ \A n \in Members, t \in Periodic :
           /\ (gpc[n][t] = "check" /\ gpc'[n][t] = "call") => states[n] = started
           /\ (gpc[n][t] = "check" /\ gpc'[n][t] # "check" /\ states[n] = stopped)
                 => gpc'[n][t] = "off"
           /\ gpc[n][t] = "off" => gpc'[n][t] = "off" ]_vars
  /\ \A n \in Members :
        (states[n] = stopped) ~> (\A t \in Periodic : gpc[n][t] = "off")

\* A node was stopped while one of its tasks was within a cycle, and both
\* its tasks have ended with the process still running.
C12_Witness ==
  \E n \in Members :
     /\ states[n] = stopped
     /\ down[n] = "up"
     /\ ~open[n]
     /\ \A t \in Periodic : gpc[n][t] = "off"
     /\ cyclesLeft < MaxCycles

\* Every node's view holds exactly the three nodes.
Converged == \A n \in Members : rings[n] = Members

\* C13: with B joined to A and C to B, all reachable, and every periodic
\* task scheduled again and again, the cluster comes to a state from which
\* every node's view is {A, B, C} for ever.
C13_RingConverges == <>[]Converged

\* C14: a member that a node's notifySuccessor or pingPredecessor removed
\* after a failed call is not in that node's view as long as the member has
\* not joined or notified again; lists gossiped by other peers do not bring
\* it back.
C14_PrunedStaysAbsent ==
  \A n \in Members, d \in Members : d \in pruned[n] => d \notin rings[n]

\* C15: RemoveNode with the node's own address ends in the fatal condition
\* and leaves the view as it was; RemoveNode with another address takes that
\* Remote out of the view, and nothing else, so the node's own Remote stays.
C15_RemoveNodeGuard ==
  [][ removeCall' # NoCall =>
        LET n == removeCall'.node
            x == removeCall'.arg
        IN  IF x = n
              THEN down'[n] = "remove_self" /\ rings'[n] = rings[n]
              ELSE /\ down'[n] = "up"
                   /\ rings'[n] = rings[n] \ {x}
                   /\ n \in rings[n] => n \in rings'[n] ]_vars

\* RemoveNode(self) was called from outside and the node is gone with its
\* view intact.
C15_Witness ==
  /\ removeCall # NoCall
  /\ removeCall.task = "api"
  /\ removeCall.called = nil
  /\ removeCall.arg = removeCall.node
  /\ down[removeCall.node] = "remove_self"
  /\ Cardinality(rings[removeCall.node]) > 1

\* C16: a started node's own Remote is a member of its own view in every
\* reachable state.
C16_SelfInOwnView ==
  \A n \in Members : (states[n] = started /\ down[n] = "up") => n \in rings[n]

\* C17: when the call of GetSuccessor to the located node fails, the node
\* that GetSuccessor removes from the view is the node it called.
C17_RemovesCalledNode ==
  [][ (removeCall' # NoCall /\ removeCall'.task = "api" /\ removeCall'.called # nil)
        => removeCall'.arg = removeCall'.called ]_vars

\* C18: within one invocation of pingPredecessor on a started, reachable
\* node the failed Pings, each followed by a retry, are at most as many as
\* the other members the view had at entry.
C18_PingRetriesBounded ==
  \A n \in Members :
    (states[n] = started /\ Reachable(n)) => loc[n]["ping"].tries <= loc[n]["ping"].entry

\* The view the claim gives for a cycle of notifySuccessor that got list
\* from its successor and had the predecessor pred.
NotifiedView(n, list, pred) ==
  IF pred # n
    THEN RingClean(list \cup {pred}, positions[pred], positions[n])
    ELSE list \cup {pred}

\* C19: when a cycle of notifySuccessor ends after a successful Notify, the
\* view is the returned list plus the predecessor read before the replacement
\* minus the members strictly between that predecessor and the node; when
\* the call failed, the view is the former view without the successor.
C19_NotifySuccessorView ==
  [][ \A n \in Members :
        /\ (gpc[n]["notify"] = "clean" /\ gpc'[n]["notify"] = "check")
             => rings'[n] = NotifiedView(n, loc[n]["notify"].list, loc[n]["notify"].pred)
        /\ (removeCall' # NoCall /\ removeCall'.node = n /\ removeCall'.task = "notify"
              /\ removeCall'.arg # n)
             => rings'[n] = rings[n] \ {loc[n]["notify"].peer} ]_vars

\* C19 for a cycle during which no other task changed the node's view.
C19_NotifySuccessorViewAlone ==
  [][ \A n \in Members :
        /\ (gpc[n]["notify"] = "clean" /\ gpc'[n]["notify"] = "check"
              /\ ~began[n]["notify"])
             => rings'[n] = NotifiedView(n, loc[n]["notify"].list, loc[n]["notify"].pred)
        /\ (removeCall' # NoCall /\ removeCall'.node = n /\ removeCall'.task = "notify"
              /\ removeCall'.arg # n)
             => rings'[n] = rings[n] \ {loc[n]["notify"].peer} ]_vars

\* A cycle without interference is about to clean: the view is the list
\* with the predecessor added, and a member of it lies between the
\* predecessor and the node.
C19_Witness ==
  \E n \in Members :
    LET l == loc[n]["notify"]
    IN  /\ At(n, "notify", "clean")
        /\ ~began[n]["notify"]
        /\ l.pred # n
        /\ rings[n] = l.list \cup {l.pred}
        /\ NotifiedView(n, l.list, l.pred) # rings[n]

\* C20: every RemoveNode call that notifySuccessor, pingPredecessor or
\* GetSuccessor makes on a node has an argument other than the node itself.
C20_NeverRemovesSelf ==
  [][ (removeCall' # NoCall /\ removeCall'.called # nil)
        => removeCall'.arg # removeCall'.node ]_vars

====
